---- MODULE Spec2Model ----
(***************************************************************************)
(* snake-ebpf: the kernel-side event tracer (bpf/snake.bpf.c, kept in      *)
(* src/scripts/verify-setup.sh lines 275-421) and the userspace control    *)
(* loop of main.go that turns the sampled counters into a tick interval    *)
(* and a food-spawn decision.                                              *)
(***************************************************************************)
EXTENDS Integers, Sequences, FiniteSets, TLC

(***************************************************************************)
(* 64-bit machine words.  TLC's integers are 32 bits wide, so a 64-bit     *)
(* word (a Go uint64, a Go time.Duration = int64, a BPF __u64) is kept as  *)
(* four limbs, least significant first: three of 20 bits and the top one   *)
(* of 4 bits.  The arithmetic is the hardware's: modulo 2^64, two's        *)
(* complement for the signed reading.                                      *)
(***************************************************************************)
\* 2^20, the radix of the three low limbs
Radix == 1048576

\* 2^4, the radix of the top limb (bits 60..63)
TopRadix == 16

\* the word of a small natural number n (n < 2^31)
U64(n) == <<n % Radix, n \div Radix, 0, 0>>

\* a + b modulo 2^64
Add64(a, b) ==
  LET s1 == a[1] + b[1]
      s2 == a[2] + b[2] + (s1 \div Radix)
      s3 == a[3] + b[3] + (s2 \div Radix)
      s4 == a[4] + b[4] + (s3 \div Radix)
  IN  <<s1 % Radix, s2 % Radix, s3 % Radix, s4 % TopRadix>>

\* the two's complement of a: -a modulo 2^64
Neg64(a) ==
  Add64(<<Radix - 1 - a[1], Radix - 1 - a[2], Radix - 1 - a[3],
          TopRadix - 1 - a[4]>>, U64(1))

\* a - b modulo 2^64
Sub64(a, b) == Add64(a, Neg64(b))

\* a * n modulo 2^64 for a factor n < 2048
MulSmall(a, n) ==
  LET p1 == a[1] * n
      p2 == a[2] * n + (p1 \div Radix)
      p3 == a[3] * n + (p2 \div Radix)
      p4 == a[4] * n + (p3 \div Radix)
  IN  <<p1 % Radix, p2 % Radix, p3 % Radix, p4 % TopRadix>>

\* a * n modulo 2^64 for a constant factor n up to 1000000 (the same bits for
\* the signed and the unsigned reading): n = 1000 * q + r
Mul64(a, n) ==
  IF n < 2048 THEN MulSmall(a, n)
  ELSE Add64(MulSmall(MulSmall(a, n \div 1000), 1000), MulSmall(a, n % 1000))

\* unsigned a / d for a divisor d < 2048 (Go's uint64 division by a
\* constant): long division from the top limb down
UDiv64(a, d) ==
  LET t3 == (a[4] % d) * Radix + a[3]
      t2 == (t3 % d) * Radix + a[2]
      t1 == (t2 % d) * Radix + a[1]
  IN  <<t1 \div d, t2 \div d, t3 \div d, a[4] \div d>>

\* unsigned a % d for a divisor d < 2048, as a number
UMod64(a, d) ==
  LET t3 == (a[4] % d) * Radix + a[3]
      t2 == (t3 % d) * Radix + a[2]
      t1 == (t2 % d) * Radix + a[1]
  IN  t1 % d

\* unsigned a < b
ULess64(a, b) ==
  IF a[4] # b[4] THEN a[4] < b[4]
  ELSE IF a[3] # b[3] THEN a[3] < b[3]
  ELSE IF a[2] # b[2] THEN a[2] < b[2]
  ELSE a[1] < b[1]

\* the sign bit of the int64 reading
IsNeg64(a) == a[4] >= 8

\* signed (int64) a < b
SLess64(a, b) ==
  IF IsNeg64(a) # IsNeg64(b) THEN IsNeg64(a) ELSE ULess64(a, b)

\* the number of a word below 2^31
ToInt(a) == a[1] + Radix * a[2]

IsSmall(a) == a[2] < 2048 /\ a[3] = 0 /\ a[4] = 0

(***************************************************************************)
(* Durations (Go's time.Duration: an int64 count of nanoseconds).          *)
(***************************************************************************)
\* time.Microsecond and time.Millisecond, in nanoseconds
Microsecond == 1000

Millisecond == 1000000

\* n milliseconds, n a small natural number
Ms(n) == Mul64(U64(n), Millisecond)

\* n * time.Second
Sec(n) == Ms(n * 1000)

POLL_INTERVAL == Ms(350)

baseInterval == POLL_INTERVAL

(***************************************************************************)
(* The maps shared by the kernel programs and the control loop: six        *)
(* one-slot arrays of __u64 (key 0) and the hash recent_events.            *)
(***************************************************************************)
MapNames ==
  {"execve_counter", "file_ops_counter", "network_counter", "process_counter",
   "context_switch_counter", "event_rate"}

ZeroMaps == [n \in MapNames |-> U64(0)]

\* eBPFMetrics{} without lastUpdate: the six sampled fields
ZeroMetrics ==
  [execveCount |-> U64(0), fileOpsCount |-> U64(0), networkCount |-> U64(0),
   processCount |-> U64(0), contextSwitchCount |-> U64(0), eventRate |-> U64(0)]

VARIABLES
  maps,             \* the six array maps: map name -> the __u64 in slot 0
  recent_events,    \* the hash map: second -> the __u64 count of that second
  ktime,            \* bpf_ktime_get_ns() / 1000000000, the kernel clock in seconds
  cpu,              \* per CPU: the program running there, its place and locals
  attached,         \* the programs that hold a kprobe link
  fired,            \* per program: how many times its probe has fired
  observed,         \* per second: the increment_event_bucket calls completed for it
  upc,              \* where main is: "load", "load_err", "attach", "select",
                    \* "spawn", "update", "exit", or before the Lookup of a field
  metrics,          \* the cycle's snapshot (local metrics = game.ebpfMetrics)
  score,            \* game.score
  gameOver,         \* game.gameOver
  now,              \* userspace clock, in milliseconds since the loop began
  lastFoodSpawn,    \* game.lastFoodSpawn, on the same clock
  foodAt,           \* when game.food was last placed by spawnFood, same clock
  currentInterval,  \* main's currentInterval (a Duration)
  ticker,           \* the period of the running time.Ticker
  spawnInterval,    \* the cycle's local spawnInterval, None when not computed
  reductions,       \* the cycle's five local ...SpeedReduction values, or None
  newInterval,      \* the cycle's local newInterval, None when not computed
  spawned,          \* whether this cycle's timer-driven spawnFood ran
  held,             \* what the six maps held, all six together, at each instant
                    \* from the first read of the cycle to its last
  sigChan,          \* the signals buffered in sigChan (capacity 1): 0 or 1
  tickC,            \* the ticks buffered in ticker.C (capacity 1): 0 or 1
  inputChan,        \* the tokens buffered in inputChan (capacity 1)
  inputClosed,      \* whether readInput has closed inputChan
  input,            \* readInput's local input/direction: the token last read
  late,             \* the control cycles completed with a signal pending
  direction,        \* game.direction, <<X, Y>>
  tickerStart,      \* when the running Ticker was made, on main's clock
  ksyms,            \* the kernel symbols on which link.Kprobe succeeds
  links,            \* attachAllKprobes' links: <<symbol, program>>, as appended
  snake,            \* game.snake, head first, each segment <<X, Y>>; None where
                    \* the grid is left out and Game.update may go any way
  food              \* game.food, <<X, Y>>; None where the grid is left out

vars ==
  <<maps, recent_events, ktime, cpu, attached, fired, observed, upc, metrics, score, gameOver, now, lastFoodSpawn, foodAt, currentInterval,
    ticker, spawnInterval, reductions, newInterval, spawned, held,
    sigChan, tickC, inputChan, inputClosed, input, late, direction,
    tickerStart, ksyms, links, snake, food>>

None == <<>>

\* the channels of main's select, the input task, and the direction
ioVars ==
  <<sigChan, tickC, inputChan, inputClosed, input, late, direction, tickerStart>>

\* the kernel's symbols and the links made at start-up
linkVars == <<ksyms, links>>

\* no symbol to attach to, no link
NoLinks == ksyms = {} /\ links = <<>>

\* the snake and the food
gridVars == <<snake, food>>

\* the grid left out
NoGrid == snake = None /\ food = None

(***************************************************************************)
(* The spawn-interval computation, main.go 186-195.                        *)
(***************************************************************************)
\* time.Duration(metrics.fileOpsCount/50) * 100 * time.Millisecond, capped at 3 s
fileOpsBonus(m) ==
  LET b == Mul64(Mul64(UDiv64(m.fileOpsCount, 50), 100), Millisecond)
  IN  IF SLess64(Sec(3), b) THEN Sec(3) ELSE b

\* 15 s less the bonus, with no floor
SpawnIntervalOf_NoFloor(m) == Sub64(Sec(15), fileOpsBonus(m))

\* 15 s less the bonus, raised to 5 s when below
SpawnIntervalOf(m) ==
  LET s == Sub64(Sec(15), fileOpsBonus(m))
  IN  IF SLess64(s, Sec(5)) THEN Sec(5) ELSE s

(***************************************************************************)
(* The tick-interval computation, main.go 207-234.                         *)
(***************************************************************************)
\* a factor left uncapped
CapAt_None(r, cap) == r

\* the cap applied to one factor: if r > cap { r = cap }
CapAt(r, cap) == IF SLess64(cap, r) THEN cap ELSE r

scoreSpeedReduction(sc) == Mul64(Mul64(U64(sc), 1), Millisecond)

\* the exec factor taken at 1 ms per exec instead of 500 us
execveSpeedReduction_PerMs(m) ==
  CapAt(Mul64(Mul64(m.execveCount, 1), Millisecond), Ms(30))

execveSpeedReduction(m) ==
  CapAt(Mul64(Mul64(m.execveCount, 500), Microsecond), Ms(30))

processSpeedReduction(m) ==
  CapAt(Mul64(UDiv64(m.processCount, 3), Millisecond), Ms(25))

rateSpeedReduction(m) ==
  CapAt(Mul64(Mul64(m.eventRate, 1), Millisecond), Ms(30))

loadSpeedReduction(m) ==
  CapAt(Mul64(UDiv64(m.contextSwitchCount, 1500), Millisecond), Ms(15))

\* the interval left without its floor
FloorAt_None(d) == d

\* if newInterval < 100ms { newInterval = 100ms }
FloorAt(d) == IF SLess64(d, Ms(100)) THEN Ms(100) ELSE d

\* the five locals of main.go 207-227
ReductionsOf(m, sc) ==
  [score |-> scoreSpeedReduction(sc),
   execve |-> execveSpeedReduction(m),
   process |-> processSpeedReduction(m),
   rate |-> rateSpeedReduction(m),
   load |-> loadSpeedReduction(m)]

\* baseInterval less the five reductions, main.go 229-230
Reduced(rd) ==
  Sub64(Sub64(Sub64(Sub64(Sub64(baseInterval, rd.score), rd.execve),
                    rd.process),
              rd.rate),
        rd.load)

NewIntervalOf(rd) == FloorAt(Reduced(rd))

(***************************************************************************)
(* One control cycle, the case <-ticker.C of main's select (main.go        *)
(* 161-241), in its three parts: the reads, the spawn decision, and the    *)
(* game update with the interval computation.                              *)
(***************************************************************************)
WaitStep == 8000

MaxNow == 24000

\* the six Lookups of key 0 into a fresh eBPFMetrics, then game.ebpfMetrics = metrics
Snapshot(mp) ==
  [execveCount |-> mp["execve_counter"],
   fileOpsCount |-> mp["file_ops_counter"],
   networkCount |-> mp["network_counter"],
   processCount |-> mp["process_counter"],
   contextSwitchCount |-> mp["context_switch_counter"],
   eventRate |-> mp["event_rate"]]

\* the field of the snapshot that the map is read into
Field(name) ==
  CASE name = "execve_counter" -> "execveCount"
    [] name = "file_ops_counter" -> "fileOpsCount"
    [] name = "network_counter" -> "networkCount"
    [] name = "process_counter" -> "processCount"
    [] name = "context_switch_counter" -> "contextSwitchCount"
    [] name = "event_rate" -> "eventRate"

\* time.Since(game.lastFoodSpawn) at clock value t
Since(t, last) == Ms(t - last)

\* the spawn computation run in every cycle
SpawnGate_Always(m) == TRUE

\* metrics.fileOpsCount > 0 (unsigned)
SpawnGate(m) == ULess64(U64(0), m.fileOpsCount)

\* what the control loop leaves alone on the kernel side
kernelVars == <<recent_events, ktime, cpu, attached, fired, observed>>

(***************************************************************************)
(* The grid, the snake and the food (main.go 86-128, 399-484).             *)
(***************************************************************************)
\* what getTerminalSize returns when the ioctl fails
termWidth == 80

termHeight == 24

ClampTo(v, lo, hi) == IF v < lo THEN lo ELSE IF v > hi THEN hi ELSE v

\* main.go 88-107: three tenths of the terminal, within 18..32 by 8..16, or
\* 20 by 10 on a terminal too small for that
TerminalTooSmall ==
  \/ termWidth < ClampTo((termWidth * 3) \div 10, 18, 32) + 4
  \/ termHeight < ClampTo((termHeight * 3) \div 10, 8, 16) + 4

gameWidth ==
  IF TerminalTooSmall THEN 20 ELSE ClampTo((termWidth * 3) \div 10, 18, 32)

gameHeight ==
  IF TerminalTooSmall THEN 10 ELSE ClampTo((termHeight * 3) \div 10, 8, 16)

\* the snake of the new Game: three segments, the head in the middle
StartSnake ==
  LET startX == gameWidth \div 2
      startY == gameHeight \div 2
  IN  <<<<startX, startY>>, <<startX - 1, startY>>, <<startX - 2, startY>>>>

Grid == (0..(gameWidth - 1)) \X (0..(gameHeight - 1))

Cells(sn) == {sn[i] : i \in 1..Len(sn)}

\* The cells that the attempts of spawnFood come to, X from the nanoseconds
\* of the clock and Y from its microseconds, for the clock readings looked
\* at: the two cells ahead of the first head, one beside it, one far off.
ClockCells == {<<13, 4>>, <<14, 4>>, <<12, 3>>, <<5, 6>>}

\* the scan of spawnFood, row by row: the first cell no segment is on
FirstFree(sn) ==
  CHOOSE c \in Grid \ Cells(sn) :
    \A d \in Grid \ Cells(sn) : c[2] < d[2] \/ (c[2] = d[2] /\ c[1] <= d[1])

\* The cells g.food may hold after spawnFood on the snake sn: a cell of an
\* attempt that is on no segment, or, all hundred attempts having fallen on
\* the snake, the first free cell of the scan; with no free cell at all the
\* food stays where the last attempt put it.
spawnFood(sn) ==
  IF Grid \ Cells(sn) = {} THEN ClockCells
  ELSE (ClockCells \ Cells(sn)) \cup {FirstFree(sn)}

\* newHead of Game.update
NewHead(sn, dir) == <<sn[1][1] + dir[1], sn[1][2] + dir[2]>>

\* the wall test and the loop over all segments but the last
Collides(sn, h) ==
  \/ h[1] < 0 \/ h[1] >= gameWidth \/ h[2] < 0 \/ h[2] >= gameHeight
  \/ \E i \in 1..(Len(sn) - 1) : sn[i] = h

\* which way Game.update goes
OutcomeOf(sn, dir, fd) ==
  IF Collides(sn, NewHead(sn, dir)) THEN "dead"
  ELSE IF NewHead(sn, dir) = fd THEN "eat"
  ELSE "move"

\* one copy of the tail added after an eaten food
Grown_Once(sn) == Append(sn, sn[Len(sn)])

\* for i := 0; i < 2; i++ { g.snake = append(g.snake, tail) }
Grown(sn) == Append(Append(sn, sn[Len(sn)]), sn[Len(sn)])

\* g.snake after Game.update
SnakeAfter(sn, dir, outcome) ==
  CASE outcome = "dead" -> sn
    [] outcome = "eat" -> Grown(<<NewHead(sn, dir)>> \o sn)
    [] outcome = "move" -> <<NewHead(sn, dir)>> \o SubSeq(sn, 1, Len(sn) - 1)

\* Game.update on the grid: the outcome is the one the snake, the direction
\* and the food decide; an eaten food is replaced by spawnFood, which is
\* called before newHead is put on the snake.  Where the grid is left out
\* any outcome goes.
GameUpdate(outcome) ==
  IF snake = None THEN UNCHANGED <<snake, food>>
  ELSE /\ outcome = OutcomeOf(snake, direction, food)
       /\ snake' = SnakeAfter(snake, direction, outcome)
       /\ food' \in IF outcome = "eat" THEN spawnFood(snake) ELSE {food}

\* the Game of main.go 112-129: the snake at its start, the food where the
\* first spawnFood put it
NewGame ==
  /\ snake = StartSnake
  /\ food \in spawnFood(StartSnake)

\* the reads of a cycle as reads that clear: the maps are zeroed once sampled
TickSample_Reset ==
  /\ upc = "select"
  /\ ~gameOver
  /\ now + WaitStep <= MaxNow
  /\ now' = now + WaitStep
  /\ metrics' = Snapshot(maps)
  /\ maps' = ZeroMaps
  /\ spawnInterval' = None
  /\ reductions' = None
  /\ newInterval' = None
  /\ spawned' = FALSE
  /\ held' = {maps}
  /\ upc' = "spawn"
  /\ UNCHANGED <<score, gameOver, lastFoodSpawn, foodAt, currentInterval, ticker>>
  /\ UNCHANGED kernelVars
  /\ UNCHANGED ioVars
  /\ UNCHANGED linkVars
  /\ UNCHANGED gridVars

\* the struct of the cycle before taken for the reads
FreshMetrics_Reused == metrics

\* metrics := eBPFMetrics{lastUpdate: time.Now()}: the counts start at 0
FreshMetrics == ZeroMetrics

\* The six Lookups into dest.  A Lookup that fails, or one that is skipped
\* because its map is nil, leaves its field of dest as it is; the error is
\* not looked at.
ReadInto(dest, mp, failed) ==
  [f \in DOMAIN dest |-> IF f \in failed THEN dest[f] ELSE Snapshot(mp)[f]]

\* The start of the case <-ticker.C, wait ms after the last cycle: the six
\* maps are read into the cycle's snapshot, the reads of the fields in failed
\* failing.
CycleReads(wait, failed) ==
  /\ upc = "select"
  /\ ~gameOver
  /\ now + wait <= MaxNow
  /\ now' = now + wait
  /\ metrics' = ReadInto(FreshMetrics, maps, failed)
  /\ spawnInterval' = None
  /\ reductions' = None
  /\ newInterval' = None
  /\ spawned' = FALSE
  /\ held' = {maps}
  /\ upc' = "spawn"
  /\ UNCHANGED <<maps, score, gameOver, lastFoodSpawn, foodAt, currentInterval,
                 ticker>>
  /\ UNCHANGED kernelVars

\* The ticker fires wait ms after the last cycle while main waits in its
\* select, and main takes the tick at once.
TickSampleAt(wait, failed) ==
  /\ CycleReads(wait, failed)
  /\ UNCHANGED ioVars
  /\ UNCHANGED linkVars
  /\ UNCHANGED gridVars

\* a cycle WaitStep ms after the last one
TickSampleWith(failed) == TickSampleAt(WaitStep, failed)

\* a cycle all of whose reads succeed
TickSample == TickSampleWith({})

\* The reads that fail in a cycle: none, one counter, the rate, or all six.
ReadFailures ==
  {{}, {"execveCount"}, {"eventRate"}, DOMAIN ZeroMetrics}

\* a cycle some of whose reads may fail
TickSampleFaulty == \E failed \in ReadFailures : TickSampleWith(failed)

TickSpawn ==
  /\ upc = "spawn"
  /\ IF SpawnGate(metrics)
       THEN /\ spawnInterval' = SpawnIntervalOf(metrics)
            /\ spawned' = SLess64(spawnInterval', Since(now, lastFoodSpawn))
            /\ lastFoodSpawn' = IF spawned' THEN now ELSE lastFoodSpawn
            /\ foodAt' = IF spawned' THEN now ELSE foodAt
       ELSE /\ spawnInterval' = None
            /\ spawned' = FALSE
            /\ lastFoodSpawn' = lastFoodSpawn
            /\ foodAt' = foodAt
  /\ food' \in IF spawned' /\ snake # None THEN spawnFood(snake) ELSE {food}
  /\ upc' = "update"
  /\ held' = {}
  /\ UNCHANGED <<maps, metrics, score, gameOver, now, currentInterval, ticker,
                 reductions, newInterval, snake>>
  /\ UNCHANGED kernelVars
  /\ UNCHANGED ioVars
  /\ UNCHANGED linkVars

\* The three ways Game.update leaves a running game (main.go 399-449): the
\* head hits a wall or the body, the head reaches the food (the score goes up
\* and spawnFood places the next food), or the snake just moves.  Which one happens is decided by the grid, the snake and the
\* food.  All three return true: the head always moves.
UpdateOutcomes == {"dead", "eat", "move"}

\* the maps read again for the tick computation
TickMetrics_Resampled == Snapshot(maps)

\* what the tick computation reads: the local metrics that the Lookups
\* filled and the spawn computation read, main.go 207-224
TickMetrics == metrics

\* the ticker stopped and made anew in every cycle
Reschedules_Always(new, current) == TRUE

\* if newInterval != currentInterval
Reschedules(new, current) == new # current

\* a loop that goes round whatever gameOver says
LoopTop_Forever(over) == "select"

\* for !game.gameOver: the case over, main is back at the select, or past
\* the loop when the game is over
LoopTop(over) == IF over THEN "exit" ELSE "select"

\* The rest of the ticker case: game.update, the tick interval, the ticker
\* (a new Ticker has a new, empty channel).
\* A dead snake ends the loop and main returns, which closes the links
\* (the deferred link.Close of main.go 75-81).
TickUpdate ==
  /\ upc = "update"
  /\ \E outcome \in UpdateOutcomes :
       /\ GameUpdate(outcome)
       /\ score' = IF outcome = "eat" THEN score + 1 ELSE score
       /\ gameOver' = (outcome = "dead")
       /\ foodAt' = IF outcome = "eat" THEN now ELSE foodAt
  /\ reductions' = ReductionsOf(TickMetrics, score')
  /\ newInterval' = NewIntervalOf(reductions')
  /\ IF Reschedules(newInterval', currentInterval)
       THEN /\ currentInterval' = newInterval'
            /\ ticker' = newInterval'
            /\ tickerStart' = now
            /\ tickC' = 0
       ELSE UNCHANGED <<currentInterval, ticker, tickerStart, tickC>>
  /\ late' = IF sigChan = 1 THEN late + 1 ELSE late
  /\ upc' = LoopTop(gameOver')
  /\ attached' = IF gameOver' THEN {} ELSE attached
  /\ UNCHANGED <<maps, metrics, now, lastFoodSpawn, spawnInterval, spawned, held>>
  /\ UNCHANGED <<recent_events, ktime, cpu, fired, observed>>
  /\ UNCHANGED <<sigChan, inputChan, inputClosed, input, direction>>
  /\ UNCHANGED linkVars

(***************************************************************************)
(* The control loop over maps that hold any values: the kernel side is     *)
(* quiet, and the counters it left behind are drawn from values on both    *)
(* sides of every threshold of the two computations.                       *)
(***************************************************************************)
\* 2^64 - 1
MaxUint64 == <<Radix - 1, Radix - 1, Radix - 1, TopRadix - 1>>

\* 18446744073710 = 0x10C6F7A0B5EE, the least execve count whose product with
\* 500000 ns reaches 2^63
ExecWraps == <<46574, 814970, 16, 0>>

\* 4611686018450 = 0x431BDE82D92, the least file-open count whose bonus
\* (count/50 * 100 ms) reaches 2^63 ns
FileOpsWraps == <<535954, 203742, 4, 0>>

ExecSamples == {U64(10), U64(10000000), ExecWraps}

FileOpsSamples ==
  {U64(0), U64(1), U64(2500), FileOpsWraps, MaxUint64}

ProcessSamples == {U64(3), U64(78), MaxUint64}

RateSamples == {U64(2), U64(31), MaxUint64}

ContextSwitchSamples == {U64(1500), U64(24000), MaxUint64}

ScoreSamples == {0, 5, 160}

Programs ==
  {"handle_execve", "handle_file_open", "handle_network_connect",
   "handle_process_fork", "handle_context_switch"}

NCPU == 2

CPUs == 1..NCPU

\* a CPU that runs none of the programs
Idle == [prog |-> "none", pc |-> "idle", start |-> 0, current_time |-> 0, val |-> None]

\* The seconds at which the kernel clock is looked at: two adjacent seconds,
\* and two more that lie 9, 10 and 11 seconds after them.
Seconds == {0, 1, 10, 11}

\* a key of recent_events that holds no entry
Absent == <<"absent">>

\* the kernel side with nothing attached and nothing counted
InitKernelQuiet ==
  /\ recent_events = [k \in Seconds |-> Absent]
  /\ ktime = 0
  /\ cpu = [c \in CPUs |-> Idle]
  /\ attached = {}
  /\ fired = [p \in Programs |-> 0]
  /\ observed = [k \in Seconds |-> 0]

\* sigChan, the ticker and inputChan as main makes them (main.go 145-154),
\* readInput before its first read, the direction of the new Game (120)
InitIO ==
  /\ sigChan = 0
  /\ tickC = 0
  /\ inputChan = <<>>
  /\ inputClosed = FALSE
  /\ input = ""
  /\ late = 0
  /\ direction = <<1, 0>>
  /\ tickerStart = 0

InitLoop ==
  /\ upc = "select"
  /\ metrics = ZeroMetrics
  /\ gameOver = FALSE
  /\ now = 0
  /\ lastFoodSpawn = 0
  /\ foodAt = 0
  /\ currentInterval = baseInterval
  /\ ticker = currentInterval
  /\ spawnInterval = None
  /\ reductions = None
  /\ newInterval = None
  /\ spawned = FALSE
  /\ held = {}
  /\ InitIO

InitCtl ==
  /\ \E e \in ExecSamples, f \in FileOpsSamples, p \in ProcessSamples,
        r \in RateSamples, c \in ContextSwitchSamples :
       maps = [execve_counter |-> e, file_ops_counter |-> f,
               network_counter |-> U64(0), process_counter |-> p,
               context_switch_counter |-> c, event_rate |-> r]
  /\ score \in ScoreSamples
  /\ InitLoop
  /\ InitKernelQuiet
  /\ NoLinks
  /\ NoGrid

\* the loop at its start over maps that hold nothing
InitCtlQuiet ==
  /\ maps = ZeroMaps
  /\ score = 0
  /\ InitLoop
  /\ InitKernelQuiet
  /\ NoLinks
  /\ NoGrid

NextCtl == TickSample \/ TickSpawn \/ TickUpdate

SpecCtl == InitCtl /\ [][NextCtl]_vars

(***************************************************************************)
(* The control loop with cycles that follow each other at two paces, over  *)
(* the file-open counts that decide the spawn interval.                    *)
(***************************************************************************)
ShortWait == 3000

\* a cycle ShortWait ms after the last one
TickSampleSoon == TickSampleAt(ShortWait, {})

InitSpawn ==
  /\ \E f \in FileOpsSamples : maps = [ZeroMaps EXCEPT !["file_ops_counter"] = f]
  /\ score = 0
  /\ InitLoop
  /\ InitKernelQuiet
  /\ NoLinks
  /\ NoGrid

NextSpawn == TickSample \/ TickSampleSoon \/ TickSpawn \/ TickUpdate

SpecSpawn == InitSpawn /\ [][NextSpawn]_vars

(***************************************************************************)
(* The kernel programs (snake.bpf.c, src/scripts/verify-setup.sh 275-421). *)
(* A program runs on the CPU its probe fired on, one program per CPU at a  *)
(* time, and the CPUs interleave instruction by instruction: every access  *)
(* to a map is a step of its own.                                          *)
(***************************************************************************)
CounterOf(prog) ==
  CASE prog = "handle_execve" -> "execve_counter"
    [] prog = "handle_file_open" -> "file_ops_counter"
    [] prog = "handle_network_connect" -> "network_counter"
    [] prog = "handle_process_fork" -> "process_counter"
    [] prog = "handle_context_switch" -> "context_switch_counter"

\* the four programs that call increment_event_bucket
Bucketed ==
  {"handle_execve", "handle_file_open", "handle_network_connect",
   "handle_process_fork"}

\* the capacity of recent_events
max_entries == 100

Live(h) == {k \in DOMAIN h : h[k] # Absent}

\* a plain store of the addend in place of the atomic add
FetchAndAdd_Store(v, n) == U64(n)

\* __sync_fetch_and_add(value, n): one atomic read-modify-write
FetchAndAdd(v, n) == Add64(v, U64(n))

\* an update that finds room whatever the map holds
HashUpdate_Unbounded(h, key, value) == [h EXCEPT ![key] = value]

\* bpf_map_update_elem(&recent_events, &key, &value, BPF_ANY): the entry is
\* overwritten when present, inserted while there is room, and the call fails
\* (the map is left as it was) when the map is full
HashUpdate(h, key, value) ==
  IF h[key] # Absent \/ Cardinality(Live(h)) < max_entries
    THEN [h EXCEPT ![key] = value]
    ELSE h

\* bpf_map_delete_elem(&recent_events, &key): a key that holds no entry, the
\* wrapped key of current_time < 10 included, is left alone
HashDelete(h, key) ==
  IF key \in DOMAIN h THEN [h EXCEPT ![key] = Absent] ELSE h

TotalFired == fired["handle_execve"] + fired["handle_file_open"]
              + fired["handle_network_connect"] + fired["handle_process_fork"]
              + fired["handle_context_switch"]

\* main's own state
mainVars ==
  <<upc, metrics, score, gameOver, now, lastFoodSpawn, foodAt, currentInterval,
    ticker, spawnInterval, reductions, newInterval, spawned, ioVars, linkVars,
    gridVars>>

userVars == <<mainVars, held>>

\* where main stands during the six Lookups: before the Lookup of the field
LookupOrder ==
  <<"execveCount", "fileOpsCount", "networkCount", "processCount",
    "contextSwitchCount", "eventRate">>

LookupPcs == {LookupOrder[i] : i \in 1..Len(LookupOrder)}

\* a write to a map between the first and the last read of a cycle is one
\* more instant of the cycle
Hold == held' = IF upc \in LookupPcs THEN held \cup {maps'} ELSE held

\* The probe of prog fires on CPU c, idle until then: the program starts with
\* the lookup of its counter, which slot 0 of an array always answers, and
\* stands before its first access to the counter.  The CPUs are alike, so a
\* probe is taken to fire on the first idle one.
Fire(c, prog, limit) ==
  /\ prog \in attached
  /\ cpu[c].pc = "idle"
  /\ \A b \in CPUs : b < c => cpu[b].pc # "idle"
  /\ TotalFired < limit
  /\ cpu' = [cpu EXCEPT
       ![c] = [prog |-> prog,
               pc |-> IF prog = "handle_context_switch" THEN "ctx_read" ELSE "add",
               start |-> ktime, current_time |-> 0, val |-> None]]
  /\ fired' = [fired EXCEPT ![prog] = @ + 1]
  /\ UNCHANGED <<maps, recent_events, ktime, attached, observed>>
  /\ UNCHANGED userVars

\* __sync_fetch_and_add(value, 1) of the four plain counters
CounterAdd(c) ==
  /\ cpu[c].pc = "add"
  /\ maps' = [maps EXCEPT ![CounterOf(cpu[c].prog)] = FetchAndAdd(@, 1)]
  /\ cpu' = [cpu EXCEPT ![c].pc = "bucket_lookup"]
  /\ UNCHANGED <<recent_events, ktime, attached, fired, observed>>
  /\ UNCHANGED mainVars
  /\ Hold

\* increment_event_bucket, first half: the clock is read and the entry of the
\* current second looked up
BucketLookup(c) ==
  /\ cpu[c].pc = "bucket_lookup"
  /\ cpu' = [cpu EXCEPT ![c].pc = "bucket_write",
                        ![c].current_time = ktime,
                        ![c].val = (recent_events[ktime] # Absent)]
  /\ UNCHANGED <<maps, recent_events, ktime, attached, fired, observed>>
  /\ UNCHANGED userVars

\* every bucketed program going on to update_event_rate
CallsRateUpdate_All(prog) == prog \in Bucketed

\* the programs that call update_event_rate after increment_event_bucket
CallsRateUpdate(prog) == prog = "handle_execve"

\* increment_event_bucket, second half: an entry that was found is added to
\* atomically, one that was not is written with initial = 1.  The call is
\* then complete, and its event is counted for the second it read.
BucketWrite(c) ==
  /\ cpu[c].pc = "bucket_write"
  /\ LET key == cpu[c].current_time
     IN  recent_events' =
           IF cpu[c].val
             THEN IF recent_events[key] # Absent
                    THEN [recent_events EXCEPT ![key] = FetchAndAdd(@, 1)]
                    ELSE recent_events
             ELSE HashUpdate(recent_events, key, U64(1))
  /\ observed' = [observed EXCEPT ![cpu[c].current_time] = @ + 1]
  /\ cpu' = [cpu EXCEPT
       ![c] = IF CallsRateUpdate(cpu[c].prog)
                THEN [cpu[c] EXCEPT !.pc = "rate_read", !.val = None]
                ELSE Idle]
  /\ UNCHANGED <<maps, ktime, attached, fired>>
  /\ UNCHANGED userVars

\* update_event_rate, the read: the clock again, then *count or 0
RateRead(c) ==
  /\ cpu[c].pc = "rate_read"
  /\ cpu' = [cpu EXCEPT ![c].pc = "rate_write",
                        ![c].current_time = ktime,
                        ![c].val = IF recent_events[ktime] # Absent
                                     THEN recent_events[ktime] ELSE U64(0)]
  /\ UNCHANGED <<maps, recent_events, ktime, attached, fired, observed>>
  /\ UNCHANGED userVars

\* update_event_rate, the store: *rate = the value read
RateWrite(c) ==
  /\ cpu[c].pc = "rate_write"
  /\ maps' = [maps EXCEPT !["event_rate"] = cpu[c].val]
  /\ cpu' = [cpu EXCEPT ![c].pc = "evict"]
  /\ UNCHANGED <<recent_events, ktime, attached, fired, observed>>
  /\ UNCHANGED mainVars
  /\ Hold

\* update_event_rate, the eviction: the entry of current_time - 10 is deleted
Evict(c) ==
  /\ cpu[c].pc = "evict"
  /\ recent_events' = HashDelete(recent_events, cpu[c].current_time - 10)
  /\ cpu' = [cpu EXCEPT ![c] = Idle]
  /\ UNCHANGED <<maps, ktime, attached, fired, observed>>
  /\ UNCHANGED userVars

\* handle_context_switch, the test *value % 100 == 0
CtxRead(c) ==
  /\ cpu[c].pc = "ctx_read"
  /\ cpu' = [cpu EXCEPT ![c].pc = "ctx_add",
                        ![c].val = (UMod64(maps["context_switch_counter"], 100) = 0)]
  /\ UNCHANGED <<maps, recent_events, ktime, attached, fired, observed>>
  /\ UNCHANGED userVars

\* a plain increment, whatever the test says
CtxStep_Uniform(multiple) == 1

\* the amount handle_context_switch adds after its test
CtxStep(multiple) == IF multiple THEN 100 ELSE 1

\* handle_context_switch, the atomic add of 100 or of 1
CtxAdd(c) ==
  /\ cpu[c].pc = "ctx_add"
  /\ maps' = [maps EXCEPT
       !["context_switch_counter"] = FetchAndAdd(@, CtxStep(cpu[c].val))]
  /\ cpu' = [cpu EXCEPT ![c] = Idle]
  /\ UNCHANGED <<recent_events, ktime, attached, fired, observed>>
  /\ UNCHANGED mainVars
  /\ Hold

\* The kernel clock moves on to second t.  A program runs to its end without
\* sleeping, so the clock passes at most one second boundary while a CPU is
\* inside one.
KTick(t) ==
  /\ t > ktime
  /\ \A c \in CPUs : cpu[c].pc # "idle" => t <= cpu[c].start + 1
  /\ ktime' = t
  /\ UNCHANGED <<maps, recent_events, cpu, attached, fired, observed>>
  /\ UNCHANGED userVars

\* the steps a CPU takes inside a program
ProgramStep(c) ==
  \/ CounterAdd(c)
  \/ BucketLookup(c)
  \/ BucketWrite(c)
  \/ RateRead(c)
  \/ RateWrite(c)
  \/ Evict(c)
  \/ CtxRead(c)
  \/ CtxAdd(c)

(***************************************************************************)
(* Start-up: loadEBPF writes 0 into slot 0 of the six arrays, then         *)
(* attachAllKprobes links the programs whose kernel symbol resolves; with  *)
(* no link at all main exits.                                              *)
(***************************************************************************)
\* m.Put(&key, &value) with value 0, for each map of mapsToInit
PutZero(mp) == [n \in DOMAIN mp |-> U64(0)]

\* mapsToInit, in the order of the loop over it
mapsToInit ==
  <<"execve_counter", "file_ops_counter", "network_counter", "process_counter",
    "context_switch_counter", "event_rate">>

\* the loop over mapsToInit left at the Put that fails: the first n Puts done
PutZeroUpTo(mp, n) ==
  [m \in DOMAIN mp |->
     IF \E i \in 1..n : mapsToInit[i] = m THEN U64(0) ELSE mp[m]]

\* loadEBPF: the Puts in order.  With all of them done the collection is
\* returned; the first Put that fails makes loadEBPF return its error.
LoadEBPF ==
  /\ upc = "load"
  /\ \E n \in 0..Len(mapsToInit) :
       IF n = Len(mapsToInit)
         THEN maps' = PutZero(maps) /\ upc' = "attach"
         ELSE maps' = PutZeroUpTo(maps, n) /\ upc' = "load_err"
  /\ UNCHANGED <<metrics, score, gameOver, now, lastFoodSpawn, foodAt, currentInterval,
                 ticker, spawnInterval, reductions, newInterval, spawned, held>>
  /\ UNCHANGED kernelVars
  /\ UNCHANGED ioVars
  /\ UNCHANGED linkVars
  /\ UNCHANGED gridVars

\* main going on to attachAllKprobes with the error of loadEBPF in hand
AfterLoadError_Ignored == "attach"

\* if err != nil { ...; os.Exit(1) } after loadEBPF
AfterLoadError == "exit"

\* main with the error of loadEBPF: it reports it and exits
LoadFailed ==
  /\ upc = "load_err"
  /\ upc' = AfterLoadError
  /\ UNCHANGED <<maps, metrics, score, gameOver, now, lastFoodSpawn, foodAt,
                 currentInterval, ticker, spawnInterval, reductions, newInterval,
                 spawned, held>>
  /\ UNCHANGED kernelVars
  /\ UNCHANGED ioVars
  /\ UNCHANGED linkVars
  /\ UNCHANGED gridVars

\* the programs of the collection: the five of snake.bpf.c
CollectionPrograms == Programs

\* probeNames of each program, in the order of the slice
ProbeNames(prog) ==
  CASE prog = "handle_execve" ->
         <<"sys_enter_execve", "__x64_sys_execve", "__arm64_sys_execve",
           "__s390x_sys_execve", "__x86_sys_execve">>
    [] prog = "handle_file_open" ->
         <<"do_sys_openat2", "do_sys_open", "__x64_sys_openat">>
    [] prog = "handle_network_connect" ->
         <<"tcp_v4_connect", "tcp_v6_connect">>
    [] prog = "handle_process_fork" ->
         <<"_do_fork", "kernel_clone", "__x64_sys_clone">>
    [] prog = "handle_context_switch" -> <<"__schedule">>

\* the loop over probeNames without its break: every name that attaches
\* adds a link
RECURSIVE TryNames_NoBreak(_, _, _, _)
TryNames_NoBreak(names, i, prog, avail) ==
  IF i > Len(names) THEN <<>>
  ELSE IF names[i] \in avail
         THEN <<<<names[i], prog>>>> \o TryNames_NoBreak(names, i + 1, prog, avail)
         ELSE TryNames_NoBreak(names, i + 1, prog, avail)

\* for _, name := range probeNames { if kp, err := link.Kprobe(name, prog,
\* nil); err == nil { links = append(links, kp); break } }, from the i-th
\* name on: the links it appends
RECURSIVE TryNames(_, _, _, _)
TryNames(names, i, prog, avail) ==
  IF i > Len(names) THEN <<>>
  ELSE IF names[i] \in avail
         THEN <<<<names[i], prog>>>>
         ELSE TryNames(names, i + 1, prog, avail)

\* the five blocks of attachAllKprobes, in their order
AttachOrder ==
  <<"handle_execve", "handle_file_open", "handle_network_connect",
    "handle_process_fork", "handle_context_switch">>

\* the block of one program: nothing when the collection has no such program
LinksOf(prog, avail) ==
  IF prog \in CollectionPrograms
    THEN TryNames(ProbeNames(prog), 1, prog, avail)
    ELSE <<>>

\* links as attachAllKprobes builds it on a kernel with the symbols avail
AttachLinks(avail) ==
  LinksOf(AttachOrder[1], avail) \o LinksOf(AttachOrder[2], avail)
  \o LinksOf(AttachOrder[3], avail) \o LinksOf(AttachOrder[4], avail)
  \o LinksOf(AttachOrder[5], avail)

\* the programs that hold a link
LinkedPrograms(ls) == {ls[i][2] : i \in 1..Len(ls)}

\* an x86-64 kernel: the exec probe attaches on its second name, the fork
\* probe on its second, and several names of a class resolve
KernelX64 ==
  {"__x64_sys_execve", "do_sys_openat2", "__x64_sys_openat", "tcp_v4_connect",
   "tcp_v6_connect", "kernel_clone", "__x64_sys_clone", "__schedule"}

\* a kernel on which only an exec symbol and __schedule can be probed
KernelBare == {"__arm64_sys_execve", "__schedule"}

\* The kernels main may find itself on.
KernelSamples == {KernelX64, KernelBare, {}}

\* The classes that end up with a link, as the kernel's symbols decide: all
\* five, only exec and context switch, or none.
AttachOutcomes == {LinkedPrograms(AttachLinks(k)) : k \in KernelSamples}

\* every program linked on the x86-64 kernel
AllLinked == ksyms = KernelX64 /\ links = AttachLinks(KernelX64)

\* an error as soon as one class has no link
AttachFails_Any(linked) == linked # Programs

\* if len(links) == 0: the error that makes main exit
AttachFails(linked) == linked = {}

AttachAllKprobes ==
  /\ upc = "attach"
  /\ links' = AttachLinks(ksyms)
  /\ attached' = LinkedPrograms(links')
  /\ upc' = IF AttachFails(attached') THEN "exit" ELSE "select"
  /\ UNCHANGED <<maps, recent_events, ktime, cpu, fired, observed>>
  /\ UNCHANGED <<metrics, score, gameOver, now, lastFoodSpawn, foodAt, currentInterval,
                 ticker, spawnInterval, reductions, newInterval, spawned, held>>
  /\ UNCHANGED ioVars
  /\ UNCHANGED ksyms
  /\ UNCHANGED gridVars

\* the wall clock when main starts: late enough that one cycle of the loop
\* follows
BootTime == MaxNow - WaitStep

\* main before loadEBPF: the maps as the kernel creates them, the game as
\* NewGame builds it (lastFoodSpawn = time.Now())
InitBoot ==
  /\ maps = ZeroMaps
  /\ score = 0
  /\ upc = "load"
  /\ metrics = ZeroMetrics
  /\ gameOver = FALSE
  /\ now = BootTime
  /\ lastFoodSpawn = BootTime
  /\ foodAt = BootTime
  /\ currentInterval = baseInterval
  /\ ticker = currentInterval
  /\ spawnInterval = None
  /\ reductions = None
  /\ newInterval = None
  /\ spawned = FALSE
  /\ held = {}
  /\ InitIO
  /\ InitKernelQuiet
  /\ ksyms \in KernelSamples
  /\ links = <<>>
  /\ NoGrid

\* the tracer loaded and all five programs linked, main at its select
InitTraced ==
  /\ maps = ZeroMaps
  /\ score = 0
  /\ InitLoop
  /\ recent_events = [k \in Seconds |-> Absent]
  /\ ktime = 0
  /\ cpu = [c \in CPUs |-> Idle]
  /\ attached = Programs
  /\ AllLinked
  /\ NoGrid
  /\ fired = [p \in Programs |-> 0]
  /\ observed = [k \in Seconds |-> 0]

(***************************************************************************)
(* The tracer alone: start-up, then the probes firing on the CPUs.         *)
(***************************************************************************)
MaxFirings == 2

NextProbe ==
  \/ \E c \in CPUs, prog \in Programs : Fire(c, prog, MaxFirings)
  \/ \E c \in CPUs : ProgramStep(c)
  \/ \E t \in Seconds : KTick(t)

SpecProbe == InitTraced /\ [][NextProbe]_vars

(***************************************************************************)
(* The tracer with recent_events at capacity: file-open probes fired once  *)
(* in each of the max_entries seconds before second 0 and no exec probe    *)
(* fired ten seconds after any of them, so nothing was evicted.            *)
(***************************************************************************)
\* the seconds before second 0 that hold an entry
FullKeys == (0 - max_entries)..(0 - 1)

\* what the counter of prog holds when the firings of this run start
FullBase(prog) == IF prog = "handle_file_open" THEN max_entries ELSE 0

InitFull ==
  /\ maps = [n \in MapNames |->
               IF n = "file_ops_counter" THEN U64(max_entries) ELSE U64(0)]
  /\ score = 0
  /\ InitLoop
  /\ recent_events = [k \in FullKeys \cup Seconds |->
                        IF k \in FullKeys THEN U64(1) ELSE Absent]
  /\ ktime = 0
  /\ cpu = [c \in CPUs |-> Idle]
  /\ attached = Programs
  /\ AllLinked
  /\ NoGrid
  /\ fired = [p \in Programs |-> 0]
  /\ observed = [k \in FullKeys \cup Seconds |-> IF k \in FullKeys THEN 1 ELSE 0]

SpecFull == InitFull /\ [][NextProbe]_vars

(***************************************************************************)
(* The whole program: start-up, the probes and the control loop side by    *)
(* side.                                                                   *)
(***************************************************************************)
NextSys ==
  \/ LoadEBPF
  \/ LoadFailed
  \/ AttachAllKprobes
  \/ \E c \in CPUs, prog \in Programs : Fire(c, prog, MaxFirings)
  \/ \E c \in CPUs : ProgramStep(c)
  \/ TickSample
  \/ TickSpawn
  \/ TickUpdate

SpecSys == InitBoot /\ [][NextSys]_vars

(***************************************************************************)
(* The context-switch probe alone, one firing after the other: a firing    *)
(* starts only when the one before it has run to its end.                  *)
(***************************************************************************)
MaxSeqFirings == 200

AllIdle == \A c \in CPUs : cpu[c].pc = "idle"

FireAlone(prog) == AllIdle /\ Fire(1, prog, MaxSeqFirings)

NextCtxSeq ==
  \/ FireAlone("handle_context_switch")
  \/ CtxRead(1)
  \/ CtxAdd(1)

SpecCtxSeq == InitTraced /\ [][NextCtxSeq]_vars

(***************************************************************************)
(* The exec probe firing, one firing after the other, next to a control    *)
(* loop whose reads may fail.                                              *)
(***************************************************************************)
FireSolo(prog) == AllIdle /\ Fire(1, prog, MaxFirings)

NextRead ==
  \/ FireSolo("handle_execve")
  \/ CounterAdd(1)
  \/ BucketLookup(1)
  \/ BucketWrite(1)
  \/ RateRead(1)
  \/ RateWrite(1)
  \/ Evict(1)
  \/ TickSampleFaulty
  \/ TickSpawn
  \/ TickUpdate

SpecRead == InitTraced /\ [][NextRead]_vars

(***************************************************************************)
(* The reads of a cycle one Lookup at a time: each Lookup is a system call *)
(* of its own, and the probes fire on the CPUs between one and the next.   *)
(***************************************************************************)
\* the ticker fires and the cycle's metrics struct is made; main stands
\* before the first Lookup
TickBegin ==
  /\ upc = "select"
  /\ ~gameOver
  /\ now + WaitStep <= MaxNow
  /\ now' = now + WaitStep
  /\ metrics' = FreshMetrics
  /\ spawnInterval' = None
  /\ reductions' = None
  /\ newInterval' = None
  /\ spawned' = FALSE
  /\ held' = {maps}
  /\ upc' = LookupOrder[1]
  /\ UNCHANGED <<maps, score, gameOver, lastFoodSpawn, foodAt, currentInterval,
                 ticker>>
  /\ UNCHANGED kernelVars
  /\ UNCHANGED ioVars
  /\ UNCHANGED linkVars
  /\ UNCHANGED gridVars

\* the field whose Lookup follows that of field f, or the spawn decision
AfterLookup(f) ==
  LET i == CHOOSE k \in 1..Len(LookupOrder) : LookupOrder[k] = f
  IN  IF i = Len(LookupOrder) THEN "spawn" ELSE LookupOrder[i + 1]

\* one Lookup(&key, &metrics.field): slot 0 of the field's map as it is now
TickLookup ==
  /\ upc \in LookupPcs
  /\ metrics' = [metrics EXCEPT ![upc] = Snapshot(maps)[upc]]
  /\ upc' = AfterLookup(upc)
  /\ UNCHANGED <<maps, score, gameOver, now, lastFoodSpawn, foodAt, currentInterval,
                 ticker, spawnInterval, reductions, newInterval, spawned, held>>
  /\ UNCHANGED kernelVars
  /\ UNCHANGED ioVars
  /\ UNCHANGED linkVars
  /\ UNCHANGED gridVars

NextLookups ==
  \/ \E c \in CPUs, prog \in Programs : Fire(c, prog, MaxFirings)
  \/ \E c \in CPUs : ProgramStep(c)
  \/ TickBegin
  \/ TickLookup
  \/ TickSpawn
  \/ TickUpdate

SpecLookups == InitTraced /\ [][NextLookups]_vars

(***************************************************************************)
(* main's select (main.go 156-273) with its three channels, next to the    *)
(* task that feeds inputChan (readInput, main.go 639-687).  A select with  *)
(* several cases ready takes any one of them.                              *)
(***************************************************************************)
\* os.Interrupt or SIGTERM is delivered: signal.Notify's send does not
\* block, a signal that finds sigChan full is dropped
Signal ==
  /\ upc \in {"select", "spawn", "update"}
  /\ sigChan = 0
  /\ sigChan' = 1
  /\ UNCHANGED <<maps, kernelVars, held>>
  /\ UNCHANGED <<upc, metrics, score, gameOver, now, lastFoodSpawn, foodAt,
                 currentInterval, ticker, spawnInterval, reductions, newInterval,
                 spawned>>
  /\ UNCHANGED <<tickC, inputChan, inputClosed, input, late, direction,
                 tickerStart>>
  /\ UNCHANGED linkVars
  /\ UNCHANGED gridVars

\* a case of main's select can proceed
SelectReady == sigChan = 1 \/ tickC = 1 \/ inputChan # <<>> \/ inputClosed

\* The ticker's period has passed once more: the tick goes into ticker.C, or
\* is dropped when one is waiting there.  A period passes while main is at
\* work in a case, or while it waits in a select that has nothing ready; a
\* select with a case ready is left before the next period is over.
TimerFires ==
  /\ upc \in {"spawn", "update"} \/ (upc = "select" /\ ~SelectReady)
  /\ now + WaitStep <= MaxNow
  /\ now' = now + WaitStep
  /\ tickC' = 1
  /\ UNCHANGED <<maps, kernelVars, held>>
  /\ UNCHANGED <<upc, metrics, score, gameOver, lastFoodSpawn, foodAt,
                 currentInterval, ticker, spawnInterval, reductions, newInterval,
                 spawned>>
  /\ UNCHANGED <<sigChan, inputChan, inputClosed, input, late, direction,
                 tickerStart>>
  /\ UNCHANGED linkVars
  /\ UNCHANGED gridVars

\* case <-ticker.C with a tick waiting in the channel
TickReceive ==
  /\ tickC = 1
  /\ tickC' = 0
  /\ CycleReads(0, {})
  /\ UNCHANGED <<sigChan, inputChan, inputClosed, input, late, direction,
                 tickerStart>>
  /\ UNCHANGED linkVars
  /\ UNCHANGED gridVars

\* case <-sigChan: game.gameOver = true; the loop ends and main returns
SigReceive ==
  /\ upc = "select"
  /\ sigChan = 1
  /\ sigChan' = 0
  /\ gameOver' = TRUE
  /\ upc' = LoopTop(gameOver')
  /\ attached' = {}
  /\ UNCHANGED <<maps, recent_events, ktime, cpu, fired, observed, held>>
  /\ UNCHANGED <<metrics, score, now, lastFoodSpawn, foodAt, currentInterval,
                 ticker, spawnInterval, reductions, newInterval, spawned>>
  /\ UNCHANGED <<tickC, inputChan, inputClosed, input, late, direction,
                 tickerStart>>
  /\ UNCHANGED linkVars
  /\ UNCHANGED gridVars

ESC == "\\033"

\* What the terminal sends for one key: a byte, or ESC [ and a letter.
Keystrokes ==
  {<<"w">>, <<"A">>, <<"q">>, <<ESC, "[", "B">>, <<ESC, "[", "Z">>}

\* if char >= 'A' && char <= 'Z' { input = string(char + 32) }
ToLower(char) ==
  CASE char = "A" -> "a"
    [] char = "D" -> "d"
    [] char = "Q" -> "q"
    [] char = "S" -> "s"
    [] char = "W" -> "w"
    [] OTHER -> char

\* The token readInput makes of a keystroke: the name of the arrow for
\* ESC [ A..D, nothing ("") for ESC [ and another letter, the byte in lower
\* case otherwise.
TokenOf(ks) ==
  IF ks[1] = ESC /\ Len(ks) >= 3 /\ ks[2] = "["
    THEN CASE ks[3] = "A" -> "up"
           [] ks[3] = "B" -> "down"
           [] ks[3] = "C" -> "right"
           [] ks[3] = "D" -> "left"
           [] OTHER -> ""
    ELSE ToLower(ks[1])

\* a send that puts the new token in the place of the waiting one
TrySend_Overwrite(ch, tok) == <<tok>>

\* select { case ch <- tok: default: }: the token goes into the buffer when
\* there is room and is dropped when there is none
TrySend(ch, tok) == IF Len(ch) < 1 THEN Append(ch, tok) ELSE ch

\* One turn of readInput's loop: a keystroke is read and its token handed
\* over without waiting, or the read fails and the channel is closed.
ReadInput ==
  /\ ~inputClosed
  /\ \/ \E ks \in Keystrokes :
          /\ input' = TokenOf(ks)
          /\ inputChan' = IF input' = "" THEN inputChan
                          ELSE TrySend(inputChan, input')
          /\ UNCHANGED inputClosed
     \/ /\ inputClosed' = TRUE
        /\ UNCHANGED <<input, inputChan>>
  /\ UNCHANGED <<maps, kernelVars, held>>
  /\ UNCHANGED <<upc, metrics, score, gameOver, now, lastFoodSpawn, foodAt,
                 currentInterval, ticker, spawnInterval, reductions, newInterval,
                 spawned>>
  /\ UNCHANGED <<sigChan, tickC, late, direction, tickerStart>>
  /\ UNCHANGED linkVars
  /\ UNCHANGED gridVars

\* the switch of case input := <-inputChan on game.direction
Turn(dir, tok) ==
  CASE tok \in {"w", "W", "up"} -> IF dir[2] = 0 THEN <<0, 0 - 1>> ELSE dir
    [] tok \in {"s", "S", "down"} -> IF dir[2] = 0 THEN <<0, 1>> ELSE dir
    [] tok \in {"a", "A", "left"} -> IF dir[1] = 0 THEN <<0 - 1, 0>> ELSE dir
    [] tok \in {"d", "D", "right"} -> IF dir[1] = 0 THEN <<1, 0>> ELSE dir
    [] OTHER -> dir

\* case input := <-inputChan: the waiting token, or "" from a closed and
\* empty channel, which is always ready
InputReceive ==
  /\ upc = "select"
  /\ inputChan # <<>> \/ inputClosed
  /\ LET tok == IF inputChan # <<>> THEN Head(inputChan) ELSE ""
     IN  /\ direction' = Turn(direction, tok)
         /\ gameOver' = (tok \in {"q", "Q"})
  /\ inputChan' = <<>>
  /\ upc' = LoopTop(gameOver')
  /\ attached' = IF gameOver' THEN {} ELSE attached
  /\ UNCHANGED <<maps, recent_events, ktime, cpu, fired, observed, held>>
  /\ UNCHANGED <<metrics, score, now, lastFoodSpawn, foodAt, currentInterval,
                 ticker, spawnInterval, reductions, newInterval, spawned>>
  /\ UNCHANGED <<sigChan, tickC, inputClosed, input, late, tickerStart>>
  /\ UNCHANGED linkVars
  /\ UNCHANGED gridVars

NextLoop ==
  \/ Signal
  \/ TimerFires
  \/ TickReceive
  \/ TickSpawn
  \/ TickUpdate
  \/ SigReceive
  \/ ReadInput
  \/ InputReceive

SpecLoop == InitCtlQuiet /\ [][NextLoop]_vars

\* main inside the ticker case goes on to its next part: from the spawn
\* decision to the update, from the update back to the top of the loop.  In
\* the loop these are the steps of TickSpawn and TickUpdate.
TickerCaseRuns ==
  /\ upc \in {"spawn", "update"}
  /\ upc' \in {"update", "select", "exit"}
  /\ upc' # upc

\* The select takes each of its ready cases with the same chance, so a case
\* that is ready at one select after the other is taken in the end; main,
\* once in the ticker case, runs through it.  Nothing is asked of the timer,
\* of the signals or of readInput.
SpecLoopFair ==
  /\ InitCtlQuiet
  /\ [][NextLoop]_vars
  /\ SF_vars(SigReceive)
  /\ SF_vars(TickReceive)
  /\ SF_vars(InputReceive)
  /\ WF_upc(TickerCaseRuns)

(***************************************************************************)
(* The game on its grid: the control cycle with the snake and the food,    *)
(* next to the input task and the input case of the select.  File-open     *)
(* activity was seen, so that the timer-driven spawn runs.                 *)
(***************************************************************************)
InitGame ==
  /\ maps = [ZeroMaps EXCEPT !["file_ops_counter"] = U64(1)]
  /\ score = 0
  /\ InitLoop
  /\ InitKernelQuiet
  /\ ksyms = {}
  /\ links = <<>>
  /\ NewGame

NextGame ==
  \/ ReadInput
  \/ InputReceive
  \/ TickSample
  \/ TickSpawn
  \/ TickUpdate

SpecGame == InitGame /\ [][NextGame]_vars

(***************************************************************************)
(* Claims about the control function, checked under SpecCtl.               *)
(***************************************************************************)
AtLeast100ms(d) == ~SLess64(d, Ms(100))

AtMostBase(d) == ~SLess64(baseInterval, d)

\* C1: every tick interval the loop computes or schedules (the cycle's
\* newInterval, currentInterval, the ticker's period) is at least 100 ms,
\* whatever the sampled values and the score, wrapped products included.
C1_TickIntervalFloor ==
  /\ AtLeast100ms(currentInterval)
  /\ AtLeast100ms(ticker)
  /\ newInterval # None => AtLeast100ms(newInterval)

\* C1 witness: a cycle whose exec product wrapped to a negative Duration and
\* whose difference wrapped again, brought to exactly 100 ms by the floor.
C1_Witness ==
  /\ newInterval # None
  /\ IsNeg64(reductions.execve)
  /\ IsNeg64(Reduced(reductions))
  /\ newInterval = Ms(100)
  /\ ticker = Ms(100)

\* C2 (as claimed): the tick interval computed in a cycle never exceeds
\* baseInterval (350 ms).
C2_TickIntervalCeiling == newInterval # None => AtMostBase(newInterval)

\* C3 (as claimed): whenever fileOpsCount > 0 the spawn interval computed in
\* the cycle lies in [5000 ms, 15000 ms].
C3_SpawnIntervalRange ==
  spawnInterval # None =>
    /\ ~SLess64(spawnInterval, Ms(5000))
    /\ ~SLess64(Ms(15000), spawnInterval)

\* C4: each capped factor is at most its own cap (30, 25, 30, 15 ms) for
\* every value of its metric, the interval is computed from the factors so
\* capped, and execCount = 10,000,000 contributes exactly 30 ms.
C4_FactorCaps ==
  reductions # None =>
    /\ ~SLess64(Ms(30), reductions.execve)
    /\ ~SLess64(Ms(25), reductions.process)
    /\ ~SLess64(Ms(30), reductions.rate)
    /\ ~SLess64(Ms(15), reductions.load)
    /\ newInterval = FloorAt(Reduced(reductions))
    /\ metrics.execveCount = U64(10000000) => reductions.execve = Ms(30)

\* C4 witness: a cycle that sampled execCount = 10,000,000 and took 30 ms
\* for it, with the process factor at its cap as well.
C4_Witness ==
  /\ reductions # None
  /\ metrics.execveCount = U64(10000000)
  /\ reductions.execve = Ms(30)
  /\ metrics.processCount = U64(78)
  /\ reductions.process = Ms(25)

SmallMetrics(m) ==
  /\ IsSmall(m.execveCount)
  /\ IsSmall(m.processCount)
  /\ IsSmall(m.eventRate)
  /\ IsSmall(m.contextSwitchCount)

Min(a, b) == IF a < b THEN a ELSE b

\* min(x * k, cap) on numbers, without forming a product beyond the cap
MinTimes(v, k, cap) == IF v > cap \div k THEN cap ELSE Min(v * k, cap)

\* the documented reduction, in microseconds
SpecReductionUs(m, sc) ==
  sc * 1000
  + MinTimes(ToInt(m.execveCount), 500, 30000)
  + MinTimes(ToInt(m.processCount) \div 3, 1000, 25000)
  + MinTimes(ToInt(m.eventRate), 1000, 30000)
  + MinTimes(ToInt(m.contextSwitchCount) \div 1500, 1000, 15000)

\* clamp(350 ms - reduction, floor 100 ms, ceiling 350 ms), in microseconds
SpecIntervalUs(m, sc) ==
  LET d == 350000 - SpecReductionUs(m, sc)
  IN  IF d < 100000 THEN 100000 ELSE IF d > 350000 THEN 350000 ELSE d

ExampleMetrics ==
  [execveCount |-> U64(10), fileOpsCount |-> U64(0), networkCount |-> U64(0),
   processCount |-> U64(3), contextSwitchCount |-> U64(1500),
   eventRate |-> U64(2)]

C6_NoSpawnWithoutFileOps ==
  [][(upc = "spawn" /\ metrics.fileOpsCount = U64(0)) =>
       (~spawned' /\ spawnInterval' = None /\ lastFoodSpawn' = lastFoodSpawn)]_vars

\* C6 witness: a cycle with fileOpsCount = 0 went past its spawn decision more
\* than 15 s after the last spawn, and did not spawn.
C6_Witness ==
  /\ upc = "update"
  /\ metrics.fileOpsCount = U64(0)
  /\ now - lastFoodSpawn > 15000
  /\ ~spawned
  /\ lastFoodSpawn = 0

(***************************************************************************)
(* Claims about the counters, checked under SpecSys, SpecProbe and         *)
(* SpecCtxSeq.                                                             *)
(***************************************************************************)
Counters ==
  {"execve_counter", "file_ops_counter", "network_counter", "process_counter",
   "context_switch_counter"}

\* a step of main (every one of them moves main on) as opposed to a step of
\* a kernel program
MainStep == upc' # upc

\* C7: in every step, whichever CPU or main takes it, none of the five
\* counters goes down (so none is reset), and every step of main after
\* loadEBPF, the reads of a cycle included, leaves all the maps as they are:
\* userspace writes them only at load time, before anything is attached.
C7_CountersMonotonic ==
  [][/\ \A n \in Counters : ~ULess64(maps'[n], maps[n])
     /\ (MainStep /\ upc # "load") => maps' = maps
     /\ (upc = "load") => attached = {}]_vars

\* C7 witness: with the probes attached, a cycle sampled execve_counter = 1
\* between two exec firings; the second firing has since added to the
\* counter while a program is still running on some CPU.
C7_Witness ==
  /\ attached # {}
  /\ upc = "update"
  /\ metrics.execveCount = U64(1)
  /\ maps["execve_counter"] = U64(2)
  /\ \E c \in CPUs : cpu[c].pc # "idle"

\* the firings of prog whose atomic add is still to come
Pending(prog) ==
  Cardinality({c \in CPUs : cpu[c].prog = prog /\ cpu[c].pc = "add"})

\* C8: for the exec, file-open, network-connect and fork programs, the
\* counter equals the number of firings of that program that have passed
\* their add, under every interleaving of the CPUs: once all N firings have
\* passed it the counter is N, no add is lost.
C8_CounterCountsFirings ==
  \A p \in Bucketed : maps[CounterOf(p)] = U64(fired[p] - Pending(p))

\* C8 witness: two firings of handle_execve run on two CPUs at the same time,
\* both are past their add, and the counter is 2.
C8_Witness ==
  /\ fired["handle_execve"] = 2
  /\ \E c, d \in CPUs :
       /\ c # d
       /\ cpu[c].prog = "handle_execve" /\ cpu[c].pc = "bucket_lookup"
       /\ cpu[d].prog = "handle_execve" /\ cpu[d].pc = "bucket_lookup"
  /\ maps["execve_counter"] = U64(2)

ContextSwitchFirings == fired["handle_context_switch"]

\* the counter after n firings as the claim has it: 1 for each of the first
\* 99 firings of a hundred, 100 for the hundredth
ClaimedAfter(n) == 199 * (n \div 100) + (n % 100)

ClaimedFirings == {1, 99, 100, 101, 199, 200}

\* C9 as stated: from 0, after N sequential firings of the context-switch
\* probe, N in {1, 99, 100, 101, 199, 200}, the counter holds what 99 adds of
\* 1 followed by one add of 100, repeated, come to.
C9_NinetyNineThenHundred ==
  (AllIdle /\ ContextSwitchFirings \in ClaimedFirings) =>
    maps["context_switch_counter"] = U64(ClaimedAfter(ContextSwitchFirings))

\* C9 as amended: from 0 the counter is a multiple of 100 at every test, so
\* every sequential firing adds 100, and after N firings the counter is
\* 100 * N (100, 9900, 10000, 10100, 19900, 20000 for the six N of the claim).
C9_EveryFiringAddsHundred ==
  AllIdle =>
    maps["context_switch_counter"] = U64(100 * ContextSwitchFirings)

\* C9 witness: 200 sequential firings are done and the counter is 20000.
C9_Witness ==
  /\ AllIdle
  /\ ContextSwitchFirings = 200
  /\ maps["context_switch_counter"] = U64(20000)

\* C10: the value an exec firing's update_event_rate reads for Rate (and then
\* stores) is the number of bucketed events recorded so far for the second
\* the clock shows at that read; events of other seconds are not in it.
C10_RateIsEventsOfCurrentSecond ==
  [][\A c \in CPUs :
       (cpu[c].pc = "rate_read" /\ cpu'[c].pc = "rate_write") =>
         cpu'[c].val = U64(observed[ktime])]_vars

(***************************************************************************)
(* Claims about Rate and the buckets, checked under SpecProbe.             *)
(***************************************************************************)
\* CPU c takes the step, inside prog or entering or leaving it
StepOf(c, prog) == cpu'[c] # cpu[c] /\ (cpu[c].prog = prog \/ cpu'[c].prog = prog)

C12_NoEntryOlderThanWindow ==
  [][\A c \in CPUs :
       (cpu[c].pc = "evict" /\ cpu'[c].pc = "idle" /\ cpu[c].current_time = ktime) =>
         \A k \in Live(recent_events') : k >= ktime - 10]_vars

\* C13: when the firings have run to their end, every live entry of
\* recent_events holds the number of increment_event_bucket calls made for
\* its second, however the CPUs interleaved: no creation and no increment is
\* lost.
C13_BucketCountsFirings ==
  AllIdle =>
    \A k \in Live(recent_events) : recent_events[k] = U64(observed[k])

(***************************************************************************)
(* Claims about the full bucket map, checked under SpecFull.               *)
(***************************************************************************)
\* CPU c stands before the insert of a new second into a map that is full
InsertFails(c) ==
  /\ cpu[c].pc = "bucket_write"
  /\ cpu[c].val = FALSE
  /\ recent_events[cpu[c].current_time] = Absent
  /\ Cardinality(Live(recent_events)) = max_entries

\* C14: when the insert of a new second fails because recent_events is full,
\* the step changes no bucket entry and no counter, the program goes on as
\* after a successful insert (to update_event_rate in handle_execve, to its
\* end in the others), and the counter of the firing program holds every
\* firing that has passed its add, this one included.
C14_FullMapDropsOnlyTheBucket ==
  [][\A c \in CPUs :
       (InsertFails(c) /\ cpu'[c] # cpu[c]) =>
         /\ recent_events' = recent_events
         /\ maps' = maps
         /\ cpu'[c].pc = IF cpu[c].prog = "handle_execve" THEN "rate_read" ELSE "idle"
         /\ maps'[CounterOf(cpu[c].prog)] =
              U64(FullBase(cpu[c].prog) + fired[cpu[c].prog] - Pending(cpu[c].prog))]_vars

\* C14 witness: a network-connect firing ran to its end with the map full:
\* its counter went from 0 to 1, the second it fired in has no entry, and the
\* map still holds its max_entries entries.
C14_Witness ==
  /\ AllIdle
  /\ fired["handle_network_connect"] = 1
  /\ TotalFired = 1
  /\ maps["network_counter"] = U64(1)
  /\ recent_events[ktime] = Absent
  /\ Cardinality(Live(recent_events)) = max_entries
  /\ \A k \in FullKeys : recent_events[k] = U64(1)

(***************************************************************************)
(* Claims about the control cycle next to the running probes, checked      *)
(* under SpecSys.                                                          *)
(***************************************************************************)
\* C15: from the reads of a cycle to its end no step, of main or of a
\* kernel program, changes the snapshot; the spawn interval and the tick
\* interval of the cycle are both computed from it, whatever the probes
\* added to the maps in between.
C15_OneSnapshotPerCycle ==
  [][/\ (upc \in {"spawn", "update"}) => metrics' = metrics
     /\ (upc = "spawn" /\ MainStep /\ SpawnGate(metrics)) =>
          spawnInterval' = SpawnIntervalOf(metrics)
     /\ (upc = "update" /\ MainStep) =>
          newInterval' = NewIntervalOf(ReductionsOf(metrics, score'))]_vars

\* C15 witness: a cycle computed both intervals from a snapshot with one
\* file-open and no exec, and execve_counter has gone to 1 since the reads.
C15_Witness ==
  /\ upc \in {"select", "exit"}
  /\ spawnInterval # None
  /\ newInterval # None
  /\ metrics.fileOpsCount = U64(1)
  /\ metrics.execveCount = U64(0)
  /\ maps["execve_counter"] = U64(1)

(***************************************************************************)
(* Claims about reads that fail, checked under SpecRead.                   *)
(***************************************************************************)
\* C16: the snapshot a cycle takes holds, field by field, 0 where the read
\* failed and what the map holds at the read where it succeeded; what the
\* cycle before sampled is not in it.
C16_FailedReadGivesZero ==
  [][(upc = "select" /\ upc' = "spawn") =>
       \E failed \in ReadFailures :
         metrics' = [f \in DOMAIN ZeroMetrics |->
                       IF f \in failed THEN U64(0) ELSE Snapshot(maps)[f]]]_vars

\* C16 witness: the first cycle read execve_counter = 1 (and made the tick
\* interval 349.5 ms with it), a second exec firing took the counter to 2,
\* and in the second cycle the read of execve_counter failed: the field is
\* 0, not 1, while the rate was read as the map has it.
C16_Witness ==
  /\ now = 2 * WaitStep
  /\ upc = "spawn"
  /\ score = 0
  /\ currentInterval = Sub64(baseInterval, U64(500000))
  /\ maps["execve_counter"] = U64(2)
  /\ metrics.execveCount = U64(0)
  /\ metrics.eventRate = maps["event_rate"]
  /\ metrics.eventRate = U64(2)

(***************************************************************************)
(* Claims about the six reads, checked under SpecLookups.                  *)
(***************************************************************************)
\* C17: when the six reads of a cycle are done, the snapshot is what the six
\* maps held, all together, at some instant between the first read and the
\* last.
C17_SnapshotOfOneInstant ==
  (upc = "spawn") => \E m \in held : metrics = Snapshot(m)

(***************************************************************************)
(* Claims about the spawn decision, checked under SpecSpawn.               *)
(***************************************************************************)
\* the step in which main decides on the timer-driven spawn
SpawnStep == upc = "spawn" /\ MainStep

\* C18 as stated: a timer-driven spawn happens only when more than the
\* cycle's spawn interval has elapsed since lastFoodSpawn, and sets
\* lastFoodSpawn to the current time; it comes no sooner than the spawn
\* interval after the food before it appeared, and at least 5000 ms after
\* the timer-driven spawn before it.
C18_NoFoodBeforeInterval ==
  [][(SpawnStep /\ spawned') =>
       /\ SLess64(spawnInterval', Since(now, lastFoodSpawn))
       /\ lastFoodSpawn' = now
       /\ SLess64(spawnInterval', Since(now, foodAt))
       /\ now - lastFoodSpawn >= 5000]_vars

\* C18 as amended: a timer-driven spawn happens only when more than the
\* cycle's spawn interval has elapsed since lastFoodSpawn, and sets
\* lastFoodSpawn to the current time; no other step changes lastFoodSpawn,
\* the spawnFood of an eaten food included, so lastFoodSpawn is the time of
\* the last timer-driven spawn (or the start) and two consecutive
\* timer-driven spawns are more than 5000 ms apart.
C18_TimerSpawnsApart ==
  [][/\ (SpawnStep /\ spawned') =>
          /\ SLess64(spawnInterval', Since(now, lastFoodSpawn))
          /\ lastFoodSpawn' = now
          /\ now - lastFoodSpawn > 5000
     /\ ~(SpawnStep /\ spawned') => lastFoodSpawn' = lastFoodSpawn]_vars

\* C18 witness: a timer-driven spawn has just run in the cycle at 12000 ms,
\* the fourth of four cycles 3000 ms apart, in one of which the snake ate.
C18_Witness ==
  /\ upc = "update"
  /\ spawned
  /\ now = 12000
  /\ lastFoodSpawn = now
  /\ score = 1

(***************************************************************************)
(* Claims about start-up, checked under SpecSys.                           *)
(***************************************************************************)
\* where main is while the loop runs
LoopPcs == {"select", "spawn", "update"}

\* C20: attachAllKprobes makes main exit exactly when no program got a
\* link; with at least one link main goes on to the loop, and while the
\* loop runs the counter of every program without a link is 0.
C20_FailsIffNothingAttached ==
  [][/\ (upc = "attach" /\ MainStep) =>
          /\ (upc' = "exit") <=> (attached' = {})
          /\ (upc' = "select") <=> (attached' # {})
     /\ \A p \in Programs :
          (upc' \in LoopPcs /\ p \notin attached') => maps'[CounterOf(p)] = U64(0)]_vars

\* C20 witness: only the exec and the context-switch program got a link;
\* the loop runs, a cycle has sampled one exec, and the file-open, the
\* network-connect and the fork counter are 0.
C20_Witness ==
  /\ attached = {"handle_execve", "handle_context_switch"}
  /\ upc = "update"
  /\ metrics.execveCount = U64(1)
  /\ maps["file_ops_counter"] = U64(0)
  /\ maps["network_counter"] = U64(0)
  /\ maps["process_counter"] = U64(0)

\* C21: loadEBPF goes on to the attachment only with all six values at 0 and
\* nothing attached yet; the snapshot of the first cycle then holds, for each
\* of the four plain counters, the firings since the attachment that have done
\* their add; and when a Put fails main exits with no probe attached.
C21_ZeroedBeforeAttach ==
  [][/\ (upc = "load" /\ upc' = "attach") => (maps' = ZeroMaps /\ attached' = {})
     /\ (upc = "load_err" /\ MainStep) => (upc' = "exit" /\ attached' = {})
     /\ (upc' = "exit" /\ upc \in {"load", "load_err"}) => attached' = {}
     /\ (upc = "select" /\ MainStep /\ now = BootTime) =>
          \A p \in Bucketed :
            metrics'[Field(CounterOf(p))] = U64(fired[p] - Pending(p))]_vars

\* C21 witness: after a load that went through and an attachment, the first
\* cycle sampled two execs, both fired since the attachment.
C21_Witness ==
  /\ upc = "spawn"
  /\ now = BootTime + WaitStep
  /\ fired["handle_execve"] = 2
  /\ metrics.execveCount = U64(2)

(***************************************************************************)
(* Claims about the select and the input task, checked under SpecLoop.     *)
(***************************************************************************)
\* C22: with a signal pending the loop completes at most one more control
\* cycle, and a select at which only the signal is ready ends the loop.
C22_ExitByNextCycleBoundary ==
  [][/\ late' <= 1
     /\ (upc = "select" /\ MainStep /\ sigChan = 1 /\ tickC = 0
           /\ inputChan = <<>> /\ ~inputClosed) => upc' = "exit"]_vars

\* a step of readInput that is seen: it read another token than the one
\* before, or it closed the channel
ReaderStep == input' # input \/ inputClosed' # inputClosed

\* C23: inputChan never holds more than one token; readInput can take its
\* next turn in every state in which it has not ended, whatever the inbox
\* holds; a token read while one is waiting is dropped and the waiting one
\* kept, and a token read while none is waiting becomes the waiting one.
C23_OneSlotInboxNeverBlocks ==
  [][/\ Len(inputChan') <= 1
     /\ ~inputClosed => ENABLED ReadInput
     /\ (ReaderStep /\ inputChan # <<>>) => inputChan' = inputChan
     /\ (ReaderStep /\ inputChan = <<>> /\ ~inputClosed') =>
          inputChan' = IF input' = "" THEN <<>> ELSE <<input'>>]_vars

\* C23 witness: "w" waits in the inbox, readInput has since read "a", which
\* was dropped, and is still reading.
C23_Witness ==
  /\ inputChan = <<"w">>
  /\ input = "a"
  /\ ~inputClosed
  /\ upc = "select"

(***************************************************************************)
(* Claims about the ticker, checked under SpecCtl.                         *)
(***************************************************************************)
\* C24: a cycle whose new interval differs from currentInterval stops the
\* ticker and makes one with the new period, and sets currentInterval to it;
\* a cycle whose new interval is the same leaves the running ticker (its
\* period, its start, a tick waiting in it) and currentInterval as they are;
\* no other step touches them, and currentInterval is the ticker's period in
\* every state.
C24_RescheduleOnlyOnChange ==
  [][/\ currentInterval' = ticker'
     /\ (upc = "update" /\ MainStep /\ newInterval' # currentInterval) =>
          /\ ticker' = newInterval'
          /\ tickerStart' = now
     /\ ~(upc = "update" /\ MainStep /\ newInterval' # currentInterval) =>
          /\ UNCHANGED <<currentInterval, ticker, tickerStart>>
          /\ (upc = "update" /\ MainStep) => tickC' = tickC]_vars

\* C24 witness: the ticker made in the first cycle, whose interval differed
\* from the 350 ms at the start, is still running after the second cycle,
\* which computed the same interval again.
C24_Witness ==
  /\ upc = "select"
  /\ now = 2 * WaitStep
  /\ tickerStart = WaitStep
  /\ newInterval = currentInterval
  /\ ticker # baseInterval

\* C25 (as claimed): the tick interval a cycle computes is at least
\* max(100 ms, 350 ms - score * 1 ms - 100 ms) for any metric values, so at
\* least 250 ms at score 0.
C25_MetricsTakeAtMost100ms ==
  newInterval # None =>
    /\ ~SLess64(newInterval, Ms(100))
    /\ score <= 150 => ~SLess64(newInterval, Ms(250 - score))

\* C27 (as claimed): the spawn interval a cycle computes is at least
\* 12000 ms for any fileOpsCount, and the 5000 ms floor never changes it:
\* 15 s less the bonus is never below 5 s.
C27_FloorNeverApplies ==
  spawnInterval # None =>
    /\ ~SLess64(spawnInterval, Ms(12000))
    /\ ~SLess64(Sub64(Sec(15), fileOpsBonus(metrics)), Ms(5000))

(***************************************************************************)
(* Claims about the attachment, checked under SpecSys.                     *)
(***************************************************************************)
\* the places of links that hold a link of prog
LinksFor(ls, prog) == {i \in 1..Len(ls) : ls[i][2] = prog}

\* the places in probeNames of prog whose name attaches
Attachable(prog) ==
  {j \in 1..Len(ProbeNames(prog)) : ProbeNames(prog)[j] \in ksyms}

\* C26: attachAllKprobes leaves at most one link per class and at most five
\* in all; the link of a class is on the first name of its list that
\* attaches, whatever later names would attach as well; a class none of
\* whose names attaches has no link; and no other step makes a link.
C26_FirstCandidatePerClass ==
  [][/\ (upc = "attach" /\ MainStep) =>
          /\ Len(links') <= 5
          /\ \A p \in Programs :
               IF Attachable(p) = {}
                 THEN LinksFor(links', p) = {}
                 ELSE /\ Cardinality(LinksFor(links', p)) = 1
                      /\ \A i \in LinksFor(links', p) :
                           \E j \in Attachable(p) :
                             /\ links'[i][1] = ProbeNames(p)[j]
                             /\ \A k \in Attachable(p) : j <= k
     /\ ~(upc = "attach" /\ MainStep) => links' = links]_vars

\* C26 witness: on the x86-64 kernel the loop runs with five links; exec is
\* linked on its second name, and connect on tcp_v4_connect alone although
\* tcp_v6_connect attaches too.
C26_Witness ==
  /\ upc = "select"
  /\ ksyms = KernelX64
  /\ Len(links) = 5
  /\ links[1] = <<"__x64_sys_execve", "handle_execve">>
  /\ links[3] = <<"tcp_v4_connect", "handle_network_connect">>
  /\ "tcp_v6_connect" \in ksyms

(***************************************************************************)
(* Claims about the snake and the food, checked under SpecGame.            *)
(***************************************************************************)
\* C28 (as claimed): after every game update and every timer-driven spawn
\* the food is on no segment of the snake, the new head included, as long as
\* the grid has a free cell.
C28_FoodOffSnake ==
  [][(upc \in {"spawn", "update"} /\ MainStep /\ Grid \ Cells(snake') # {}) =>
       food' \notin Cells(snake')]_vars

\* C29: the snake has 3 + 3*score segments in every state; an update that
\* eats raises the score by one and the length by three, any other update
\* leaves both as they are, and no step lowers the score.
C29_LengthFollowsScore ==
  /\ [](Len(snake) = 3 + 3 * score)
  /\ [][/\ score' >= score
        /\ (upc = "update" /\ MainStep) =>
             IF OutcomeOf(snake, direction, food) = "eat"
               THEN score' = score + 1 /\ Len(snake') = Len(snake) + 3
               ELSE score' = score /\ Len(snake') = Len(snake)]_vars

\* two foods eaten: the score is 2 on a snake of nine segments
C29_Witness == score = 2 /\ Len(snake) = 9 /\ upc = "select"

\* the direction of the snake's last move: from its neck to its head
LastMove == <<snake[1][1] - snake[2][1], snake[1][2] - snake[2][2]>>

\* C30 (as claimed): the direction is always one of the four unit vectors,
\* and whatever tokens were delivered since the tick before, the direction
\* Game.update moves by is never the reverse of the snake's last move.
C30_NeverBackIntoNeck ==
  /\ [](direction \in {<<1, 0>>, <<-1, 0>>, <<0, 1>>, <<0, -1>>})
  /\ [](upc = "update" => direction # <<-LastMove[1], -LastMove[2]>>)

(***************************************************************************)
(* The end of the loop, checked under SpecLoopFair.                        *)
(***************************************************************************)
\* C31: with the select fair to its ready cases, a signal waiting in sigChan
\* or a quit token waiting in inputChan leads to the loop's exit; and from a
\* state with gameOver true no step samples the maps, places a food, turns
\* or moves the snake, scores, or brings main back into the loop.
C31_ShutdownEndsTheLoop ==
  /\ (sigChan = 1 \/ inputChan = <<"q">>) ~> (upc = "exit")
  /\ [][gameOver =>
          /\ upc' = "exit" /\ upc = "exit"
          /\ UNCHANGED <<metrics, lastFoodSpawn, foodAt, food, snake, direction,
                         score, gameOver, tickC, now>>]_vars

\* the signal came, a whole cycle was run with it waiting, and then the
\* signal case was taken: the loop is left with sigChan drained
C31_Witness == upc = "exit" /\ gameOver /\ late >= 1 /\ sigChan = 0

====
